---- MODULE Spec2Model ----
(***************************************************************************)
(* Model of pirx.py: World (planets, spaceships, deferred destruction),    *)
(* its tick, Simulation, the rolling buffer of future worlds, Viewport,    *)
(* Statistics and game_loop.                                               *)
(*                                                                         *)
(* Every specification but SpecStats starts where world = World() has      *)
(* returned: the two planets and the ship of World.__init__ and the ten    *)
(* ships of random_spaceships, whose places and speeds come from           *)
(* random.random().  The values it returned are the only choice of the     *)
(* initial state.                                                          *)
(*                                                                         *)
(* Specifications.                                                         *)
(* Spec: a caller that holds world, builds Simulation(world), calls        *)
(* simulation.tick(), and calls world.random_spaceships() at any moment.   *)
(* SpecCfg: a caller that calls the constructors Planet(...) and           *)
(* SpaceShip(...) and builds Simulation(world).                            *)
(* SpecLoop: game_loop(world), one step per poll, draw, tick, push and     *)
(* frame limit.                                                            *)
(* SpecTick: a caller of the methods of World (tick, simulate_ships,       *)
(* process_waiting, simulate_planets, move_planets) on world, one step per *)
(* loop pass.                                                              *)
(* SpecOrbit: a caller that calls world.tick() again and again.            *)
(* SpecStats: a Statistics object under push and reset.                    *)
(*                                                                         *)
(* Numbers.  The numbers of a World and of a Viewport are Python floats,   *)
(* that is IEEE 754 doubles, and the model computes on doubles: +, -, *,   *)
(* / and math.sqrt give the double nearest to the exact result, ties to    *)
(* even.  An int of the source stands for the double of the same value     *)
(* (the two agree in every operation below 2^53).  x ** 2 is the C         *)
(* library's pow(x, 2.0).  It returns x * x whenever that is a double, and *)
(* otherwise one of the two doubles next to x * x: the nearest one at most *)
(* arguments, the other one at some, and which arguments those are is a    *)
(* property of the library the program runs on.  The variable libm holds   *)
(* the arguments at which pow takes the other double; it is chosen at the  *)
(* start and never changes.                                                *)
(* A result outside the normal doubles (an infinity, an OverflowError, a   *)
(* subnormal) is the token Bad, which every operation hands on.  The       *)
(* samples of Statistics are integers and are modelled as such.            *)
(*                                                                         *)
(* Objects.  World objects live in a heap (a sequence; the index is the    *)
(* object's identity), so that copy.deepcopy and the in-place mutation of  *)
(* World.tick are distinct operations of the model.  Object 1 is the world *)
(* World() returned, the one the caller holds.  Ships carry an id, their   *)
(* object identity inside one world (list.remove compares by it).  The     *)
(* colours of the bodies take no part in any computation and are left out. *)
(***************************************************************************)
EXTENDS Integers, Sequences, FiniteSets, TLC

\* ---------------------------------------------------------------- bounds

\* Simulation.future_step_count, 500 in the source, scaled down.
FutureStepCount == 2

\* Largest number of Simulation.tick() calls in one behaviour.
MaxCalls == 2

\* Largest number of world.random_spaceships() calls the caller makes in
\* one behaviour (the call of World.__init__ is not counted).
MaxScatter == 1

\* Largest number of calls of methods of World in one behaviour of SpecTick.
MaxWorldCalls == 2

\* Largest number of world.tick() calls in one behaviour of SpecOrbit.
MaxWorldTicks == 12

\* Largest number of Planet(...) and SpaceShip(...) calls in one behaviour.
MaxBodies == 2

\* Largest number of events other than NOEVENT polled in one behaviour.
MaxEvents == 2

\* Largest value frame_timer.get_time() returns, in milliseconds.
MaxFrameTime == 1

\* Statistics.sample_count, 100 in the source, scaled down.
SampleCount == 3

\* Largest number of Statistics.push calls in one behaviour.
MaxPushes == 5

\* ---------------------------------------------------------------- floats
\* Python floats are IEEE 754 doubles.  A finite double is
\* [neg, exp, sig]: its value is (-1)^neg * sig * 2^exp, where sig is a
\* natural number of exactly Precision bits, or zero (sig = <<>>, exp = 0,
\* neg the sign of the zero).  Natural numbers are sequences of limbs, the
\* least significant first, without leading zeros.  Every operation is
\* rounded to nearest, ties to even, as the hardware does it.  Operators
\* take the values they use several times as parameters, so that every
\* intermediate result is computed once.

\* Bits of the significand of a double.
Precision == 53

\* Largest exponent of the first bit of a double.
EMax == 1023

\* Bits of a limb: a product of two limbs fits a machine integer.
LimbBits == 14

Base == 2 ^ LimbBits

Abs(i) == IF i < 0 THEN -i ELSE i

RECURSIVE IntBits(_)
IntBits(i) == IF i = 0 THEN 0 ELSE 1 + IntBits(i \div 2)

Limb(a, i) == IF i <= Len(a) THEN a[i] ELSE 0

RECURSIVE NTrim(_)
NTrim(a) ==
    IF a = <<>> \/ a[Len(a)] # 0 THEN a ELSE NTrim(SubSeq(a, 1, Len(a) - 1))

RECURSIVE NFromInt(_)
NFromInt(i) == IF i = 0 THEN <<>> ELSE <<i % Base>> \o NFromInt(i \div Base)

\* Number of bits of a.
NBits(a) ==
    IF a = <<>> THEN 0 ELSE (Len(a) - 1) * LimbBits + IntBits(a[Len(a)])

\* Bit k of a, bit 0 being the last.
NBit(a, k) == (Limb(a, (k \div LimbBits) + 1) \div (2 ^ (k % LimbBits))) % 2

\* The last n bits of a are zero.
NLowZero(a, n) ==
    /\ \A i \in 1..(n \div LimbBits) : Limb(a, i) = 0
    /\ Limb(a, (n \div LimbBits) + 1) % (2 ^ (n % LimbBits)) = 0

RECURSIVE NLessFrom(_, _, _)
NLessFrom(a, b, i) ==
    IF i = 0 THEN FALSE
    ELSE IF a[i] # b[i] THEN a[i] < b[i]
    ELSE NLessFrom(a, b, i - 1)

NLess(a, b) ==
    IF Len(a) # Len(b) THEN Len(a) < Len(b) ELSE NLessFrom(a, b, Len(a))

\* a + b from limb i on, t being a[i] + b[i] + carry.
RECURSIVE NAddFrom(_, _, _, _)
NAddFrom(a, b, i, t) ==
    IF i > Len(a) /\ i > Len(b) THEN (IF t = 0 THEN <<>> ELSE <<t>>)
    ELSE <<t % Base>>
         \o NAddFrom(a, b, i + 1,
                     Limb(a, i + 1) + Limb(b, i + 1) + (t \div Base))

NAdd(a, b) == NAddFrom(a, b, 1, Limb(a, 1) + Limb(b, 1))

\* a - b (a >= b) from limb i on, t being a[i] - b[i] - borrow.
RECURSIVE NSubFrom(_, _, _, _)
NSubFrom(a, b, i, t) ==
    IF i > Len(a) THEN <<>>
    ELSE <<t % Base>>
         \o NSubFrom(a, b, i + 1,
                     Limb(a, i + 1) - Limb(b, i + 1) - (IF t < 0 THEN 1 ELSE 0))

NSub(a, b) == NTrim(NSubFrom(a, b, 1, Limb(a, 1) - Limb(b, 1)))

\* The sum of the products a[i] * b[k + 1 - i], from i on.
RECURSIVE ColSum(_, _, _, _)
ColSum(a, b, k, i) ==
    IF i > Len(a) \/ i > k THEN 0
    ELSE (a[i] * Limb(b, k + 1 - i)) + ColSum(a, b, k, i + 1)

\* a * b (at most 4 limbs each) from limb k on, t being column k + carry.
RECURSIVE NMulFrom(_, _, _, _)
NMulFrom(a, b, k, t) ==
    IF k > Len(a) + Len(b) THEN <<>>
    ELSE <<t % Base>>
         \o NMulFrom(a, b, k + 1, ColSum(a, b, k + 1, 1) + (t \div Base))

NMul(a, b) == NTrim(NMulFrom(a, b, 1, ColSum(a, b, 1, 1)))

\* a * 2^r (r < LimbBits) from limb i on, t being a[i] * 2^r + carry.
RECURSIVE NShlFrom(_, _, _, _)
NShlFrom(a, r, i, t) ==
    IF i > Len(a) THEN (IF t = 0 THEN <<>> ELSE <<t>>)
    ELSE <<t % Base>>
         \o NShlFrom(a, r, i + 1, (Limb(a, i + 1) * (2 ^ r)) + (t \div Base))

\* a * 2^n
NShl(a, n) ==
    IF a = <<>> THEN <<>>
    ELSE [i \in 1..(n \div LimbBits) |-> 0]
         \o NShlFrom(a, n % LimbBits, 1, a[1] * (2 ^ (n % LimbBits)))

NShrBits(a, r) ==
    NTrim([i \in 1..Len(a) |->
              (a[i] \div (2 ^ r))
              + ((Limb(a, i + 1) % (2 ^ r)) * (2 ^ (LimbBits - r)))])

\* a \div 2^n
NShr(a, n) ==
    IF n \div LimbBits >= Len(a) THEN <<>>
    ELSE NShrBits(SubSeq(a, (n \div LimbBits) + 1, Len(a)), n % LimbBits)

\* A result outside the range of normal doubles (an infinity, an
\* OverflowError, a subnormal): an operation on Bad gives Bad again, and a
\* comparison with it is false.
Bad == [neg |-> FALSE, exp |-> 0, sig |-> <<0>>]

IsBad(a) == a.sig = <<0>>

Zero(neg) == [neg |-> neg, exp |-> 0, sig |-> <<>>]

IsZero(a) == a.sig = <<>>

\* The exponent of the first bit of a normal double is in 1 - EMax .. EMax.
Pack(neg, sig, exp) ==
    IF exp + (Precision - 1) > EMax \/ exp + (Precision - 1) < 1 - EMax
    THEN Bad
    ELSE [neg |-> neg, exp |-> exp, sig |-> sig]

\* sig after a round up: it may have become 2^Precision.
Carried(neg, sig, exp) ==
    IF NBits(sig) > Precision THEN Pack(neg, NShr(sig, 1), exp + 1)
    ELSE Pack(neg, sig, exp)

\* Round to nearest, ties to even: the last d bits of mant are dropped,
\* sig being the bits kept; sticky tells that the exact value is larger
\* than mant.
RoundEven(neg, mant, exp, sticky, d, sig) ==
    IF NBit(mant, d - 1) = 1
       /\ (sticky \/ ~NLowZero(mant, d - 1) \/ sig[1] % 2 = 1)
    THEN Carried(neg, NAdd(sig, <<1>>), exp + d)
    ELSE Pack(neg, sig, exp + d)

\* mant * 2^exp (mant > 0 with bits bits) as a double.
Rounded(neg, mant, exp, sticky, bits) ==
    IF bits <= Precision
    THEN Pack(neg, NShl(mant, Precision - bits), exp - (Precision - bits))
    ELSE RoundEven(neg, mant, exp, sticky, bits - Precision,
                   NShr(mant, bits - Precision))

RoundedExact(neg, mant, exp) == Rounded(neg, mant, exp, FALSE, NBits(mant))

\* float(i) for an integer i
F(i) ==
    IF i = 0 THEN Zero(FALSE)
    ELSE Rounded(i < 0, NFromInt(Abs(i)), 0, FALSE, IntBits(Abs(i)))

FNeg(a) == IF IsBad(a) THEN Bad ELSE [a EXCEPT !.neg = ~a.neg]

FAbs(a) == IF IsBad(a) THEN Bad ELSE [a EXCEPT !.neg = FALSE]

\* |a| < |b| for nonzero a, b
MagLess(a, b) == a.exp < b.exp \/ (a.exp = b.exp /\ NLess(a.sig, b.sig))

\* a < b
FLess(a, b) ==
    /\ ~IsBad(a)
    /\ ~IsBad(b)
    /\ IF IsZero(a) THEN ~IsZero(b) /\ ~b.neg
       ELSE IF IsZero(b) THEN a.neg
       ELSE IF a.neg # b.neg THEN a.neg
       ELSE IF a.neg THEN MagLess(b, a)
       ELSE MagLess(a, b)

\* hi + lo for nonzero hi, lo with hi.exp >= lo.exp, m being hi.sig
\* written with the exponent of lo.
SumExact(hi, lo, m) ==
    IF hi.neg = lo.neg THEN RoundedExact(hi.neg, NAdd(m, lo.sig), lo.exp)
    ELSE IF m = lo.sig THEN Zero(FALSE)
    ELSE IF NLess(m, lo.sig) THEN RoundedExact(lo.neg, NSub(lo.sig, m), lo.exp)
    ELSE RoundedExact(hi.neg, NSub(m, lo.sig), lo.exp)

\* A lo below a quarter of the last place of hi does not change hi.
SumAligned(hi, lo) ==
    IF hi.exp - lo.exp > Precision + 2 THEN hi
    ELSE SumExact(hi, lo, NShl(hi.sig, hi.exp - lo.exp))

\* a + b
FAdd(a, b) ==
    IF IsBad(a) \/ IsBad(b) THEN Bad
    ELSE IF IsZero(a) /\ IsZero(b) THEN Zero(a.neg /\ b.neg)
    ELSE IF IsZero(a) THEN b
    ELSE IF IsZero(b) THEN a
    ELSE IF a.exp >= b.exp THEN SumAligned(a, b)
    ELSE SumAligned(b, a)

\* a - b
FSub(a, b) == FAdd(a, FNeg(b))

\* a * b
FMul(a, b) ==
    IF IsBad(a) \/ IsBad(b) THEN Bad
    ELSE IF IsZero(a) \/ IsZero(b) THEN Zero(a.neg # b.neg)
    ELSE RoundedExact(a.neg # b.neg, NMul(a.sig, b.sig), a.exp + b.exp)

\* The C library behind x ** 2: the magnitudes |x| at which pow(x, 2.0)
\* returns the double on the other side of x * x than the nearest one.
VARIABLE libm

\* pow(x, 2.0) for x * x = mant * 2^exp, d being the bits of mant beyond
\* Precision: x * x when it is a double, else the nearest double or, if
\* far, the other one of the two doubles next to x * x.
SquareRounded(mant, exp, d, far) ==
    IF far /\ d > 0 /\ ~NLowZero(mant, d)
    THEN IF RoundedExact(FALSE, mant, exp) = Pack(FALSE, NShr(mant, d), exp + d)
         THEN Carried(FALSE, NAdd(NShr(mant, d), <<1>>), exp + d)
         ELSE Pack(FALSE, NShr(mant, d), exp + d)
    ELSE RoundedExact(FALSE, mant, exp)

\* a ** 2
pow2(a) ==
    IF IsBad(a) THEN Bad
    ELSE IF IsZero(a) THEN Zero(FALSE)
    ELSE SquareRounded(NMul(a.sig, a.sig), 2 * a.exp,
                       NBits(NMul(a.sig, a.sig)) - Precision,
                       FAbs(a) \in libm)

\* Division and square root run on numbers of two words of 2 * LimbBits
\* bits, [h, l] standing for h * Word + l.
Word == Base * Base

\* The words of a significand, and the limbs of a number of two words.
High(sig) == sig[4] * Base + sig[3]

Low(sig) == sig[2] * Base + sig[1]

NFromWords(h, l) ==
    NTrim(<<l % Base, l \div Base, h % Base, (h \div Base) % Base,
            h \div Word>>)

\* One step of the long division: the remainder [th, tl] doubled, and the
\* quotient [qh, ql] with one more bit.
DivShifted(th, tl, qh, ql, bit) ==
    [th |-> 2 * th + ((2 * tl) \div Word), tl |-> (2 * tl) % Word,
     qh |-> 2 * qh + ((2 * ql) \div Word), ql |-> ((2 * ql) % Word) + bit]

\* One bit of the long division by [bh, bl]: s holds the quotient so far
\* and twice the remainder so far.
DivStep(s, bh, bl) ==
    IF s.th < bh \/ (s.th = bh /\ s.tl < bl)
    THEN DivShifted(s.th, s.tl, s.qh, s.ql, 0)
    ELSE DivShifted(s.th - bh - (IF s.tl < bl THEN 1 ELSE 0),
                    (s.tl - bl) % Word, s.qh, s.ql, 1)

\* count more bits of the quotient, the first half of them and then the
\* rest; nothing changes once remainder and quotient are zero.
RECURSIVE DivBits(_, _, _, _)
DivBits(s, bh, bl, count) ==
    IF count = 0 \/ s = [th |-> 0, tl |-> 0, qh |-> 0, ql |-> 0] THEN s
    ELSE IF count = 1 THEN DivStep(s, bh, bl)
    ELSE DivBits(DivBits(s, bh, bl, count \div 2), bh, bl,
                 count - (count \div 2))

\* The bits of a quotient or root, inexact when a remainder is left.
QuotientOf(neg, s, exp) ==
    Rounded(neg, NFromWords(s.qh, s.ql), exp, s.th # 0 \/ s.tl # 0,
            NBits(NFromWords(s.qh, s.ql)))

\* a / b for b # 0 (the caller raises ZeroDivisionError for b = 0): the
\* first Precision + 3 or Precision + 4 bits of the quotient, rounded.
FDiv(a, b) ==
    IF IsBad(a) \/ IsBad(b) \/ IsZero(b) THEN Bad
    ELSE IF IsZero(a) THEN Zero(a.neg # b.neg)
    ELSE QuotientOf(a.neg # b.neg,
                    DivBits([th |-> High(a.sig), tl |-> Low(a.sig),
                             qh |-> 0, ql |-> 0],
                            High(b.sig), Low(b.sig), Precision + 4),
                    a.exp - b.exp - (Precision + 3))

\* One step of the square root: the root [qh, ql] gets one more bit, and
\* the next two bits of [xh, xl] are moved behind the remainder [rh, rl].
SqrtShifted(xh, xl, rh, rl, qh, ql, bit) ==
    [xh |-> ((4 * xh) % Word) + ((4 * xl) \div Word),
     xl |-> (4 * xl) % Word,
     th |-> 4 * rh + ((4 * rl + (xh \div (Word \div 4))) \div Word),
     tl |-> (4 * rl + (xh \div (Word \div 4))) % Word,
     qh |-> 2 * qh + ((2 * ql) \div Word),
     ql |-> ((2 * ql) % Word) + bit]

\* One bit of the square root: s holds the bits still to be read (from
\* the top of two words on), the root so far and 4 * remainder + the two
\* bits read last; [sh, sl] is 4 * root + 1.
SqrtStep(s, sh, sl) ==
    IF s.th < sh \/ (s.th = sh /\ s.tl < sl)
    THEN SqrtShifted(s.xh, s.xl, s.th, s.tl, s.qh, s.ql, 0)
    ELSE SqrtShifted(s.xh, s.xl, s.th - sh - (IF s.tl < sl THEN 1 ELSE 0),
                     (s.tl - sl) % Word, s.qh, s.ql, 1)

\* count more bits of the root, the first half of them and then the rest;
\* nothing changes once nothing is left to read and root and remainder
\* are zero.
RECURSIVE SqrtBits(_, _)
SqrtBits(s, count) ==
    IF count = 0
       \/ s = [xh |-> 0, xl |-> 0, th |-> 0, tl |-> 0, qh |-> 0, ql |-> 0]
    THEN s
    ELSE IF count = 1
    THEN SqrtStep(s, 4 * s.qh + ((4 * s.ql + 1) \div Word),
                  (4 * s.ql + 1) % Word)
    ELSE SqrtBits(SqrtBits(s, count \div 2), count - (count \div 2))

\* math.sqrt(a) for a > 0: the Precision + 2 bits of the root of
\* sig * 2^k, k being the one of Precision + 3 and Precision + 4 that
\* leaves an even exponent; [xh, xl] are the first bits of sig * 2^k.
SqrtOf(a, k, xh, xl) ==
    QuotientOf(FALSE,
               SqrtBits(SqrtShifted(xh, xl, 0, 0, 0, 0, 0), Precision + 2),
               (a.exp - k) \div 2)

\* math.sqrt(a) for a >= 0
FSqrt(a) ==
    IF IsBad(a) \/ (a.neg /\ ~IsZero(a)) THEN Bad
    ELSE IF IsZero(a) THEN a
    ELSE IF a.exp % 2 = 0
    THEN SqrtOf(a, Precision + 3,
                4 * High(a.sig) + ((4 * Low(a.sig)) \div Word),
                (4 * Low(a.sig)) % Word)
    ELSE SqrtOf(a, Precision + 4,
                8 * High(a.sig) + ((8 * Low(a.sig)) \div Word),
                (8 * Low(a.sig)) % Word)


\* ------------------------------------------------------------------ bodies

XYValue(x, y, v) == [x |-> x, y |-> y, v |-> v]

Planet(position, mass, radius, speed) ==
    [position |-> position, mass |-> mass, radius |-> radius, speed |-> speed]

\* id is the identity of the ship object; radius and mass are fixed.
SpaceShip(id, position, speed) ==
    [id |-> id, position |-> position, speed |-> speed,
     radius |-> F(2), mass |-> F(1)]

\* A World with these bodies and an empty deferred_actions list.
NewWorld(planets, spaceships) ==
    [planets |-> planets, spaceships |-> spaceships, deferred_actions |-> <<>>]

\* ------------------------------------------------------------ World, pure
\* An operation that can raise returns a record with a field err, "none"
\* when it returned normally.

\* euclidean = math.sqrt(x**2 + y**2)
DistanceXY(x, y) == XYValue(x, y, FSqrt(FAdd(pow2(x), pow2(y))))

distance(obj1, obj2) ==
    DistanceXY(FSub(obj1.position[1], obj2.position[1]),
               FSub(obj1.position[2], obj2.position[2]))

\* distance.v < radius
Inside(dist, radius) == FLess(dist.v, radius)

\* math.copysign(m, s): |m| with the sign of s, a negative zero included.
copysign(m, s) == IF s.neg THEN FNeg(FAbs(m)) ELSE FAbs(m)

ForceXY(m, dist) ==
    [err |-> "none", x |-> copysign(m, dist.x), y |-> copysign(m, dist.y)]

\* 1.0 / distance.v**2 * obj1.mass * obj2.mass, v2 being distance.v**2;
\* the division raises ZeroDivisionError when v2 is 0.
ForceAt(obj1, obj2, dist, v2) ==
    IF IsZero(v2)
    THEN [err |-> "ZeroDivisionError", x |-> F(0), y |-> F(0)]
    ELSE ForceXY(FMul(FMul(FDiv(F(1), v2), obj1.mass), obj2.mass), dist)

\* 1.0 / 0.0 giving a zero force instead of raising.
gravity_force_noraise(obj1, obj2, dist) ==
    IF IsZero(dist.v)
    THEN [err |-> "none", x |-> F(0), y |-> F(0)]
    ELSE ForceAt(obj1, obj2, dist, pow2(dist.v))

gravity_force(obj1, obj2, dist) ==
    ForceAt(obj1, obj2, dist, pow2(dist.v))

\* The radius test of simulate_ships with <= in place of <.
ShipHit_le(dist, planet) ==
    ~IsBad(dist.v) /\ ~FLess(planet.radius, dist.v)

\* The radius test of simulate_ships: if distance.v < planet.radius.
ShipHit(dist, planet) == Inside(dist, planet.radius)

\* One pass of the inner loop of simulate_ships, after the radius test:
\* the force is added, or its exception ends the loop.
\* acc = [forcex, forcey, deferred, err].
ShipPlanetForce(acc, deferred, force) ==
    IF force.err # "none"
    THEN [acc EXCEPT !.deferred = deferred, !.err = force.err]
    ELSE [forcex   |-> FAdd(acc.forcex, force.x),
          forcey   |-> FAdd(acc.forcey, force.y),
          deferred |-> deferred,
          err      |-> "none"]

ShipPlanetAt(acc, planet, spaceship, dist) ==
    ShipPlanetForce(acc,
        IF ShipHit(dist, planet) THEN Append(acc.deferred, spaceship.id)
                                 ELSE acc.deferred,
        gravity_force(planet, spaceship, dist))

ShipPlanet(acc, planet, spaceship) ==
    ShipPlanetAt(acc, planet, spaceship, distance(planet, spaceship))

\* The inner loop of simulate_ships for one (already moved) ship, from
\* planet j on.
RECURSIVE ShipForces(_, _, _, _)
ShipForces(planets, spaceship, j, acc) ==
    IF j > Len(planets) \/ acc.err # "none" THEN acc
    ELSE ShipForces(planets, spaceship, j + 1,
                    ShipPlanet(acc, planets[j], spaceship))

\* spaceship.position += spaceship.speed
MoveShip(s) ==
    [s EXCEPT !.position = <<FAdd(s.position[1], s.speed[1]),
                             FAdd(s.position[2], s.speed[2])>>]

\* An update that moves the ship by this tick's force as well.
ShipDone_forced(w, i, moved, acc) ==
    IF acc.err # "none"
    THEN [w   |-> [w EXCEPT !.spaceships[i] = moved,
                            !.deferred_actions = acc.deferred],
          err |-> acc.err]
    ELSE [w   |-> [w EXCEPT !.spaceships[i] =
                        [moved EXCEPT !.speed =
                            <<FAdd(moved.speed[1], acc.forcex),
                              FAdd(moved.speed[2], acc.forcey)>>,
                                      !.position =
                            <<FAdd(moved.position[1], acc.forcex),
                              FAdd(moved.position[2], acc.forcey)>>],
                            !.deferred_actions = acc.deferred],
          err |-> "none"]

\* An update that pushes the second planet by the force on the ship.
ShipDone_reacting(w, i, moved, acc) ==
    IF acc.err # "none"
    THEN [w   |-> [w EXCEPT !.spaceships[i] = moved,
                            !.deferred_actions = acc.deferred],
          err |-> acc.err]
    ELSE [w   |-> [w EXCEPT !.spaceships[i] =
                        [moved EXCEPT !.speed =
                            <<FAdd(moved.speed[1], acc.forcex),
                              FAdd(moved.speed[2], acc.forcey)>>],
                            !.planets[2].speed =
                            <<FSub(w.planets[2].speed[1], acc.forcex),
                              FSub(w.planets[2].speed[2], acc.forcey)>>,
                            !.deferred_actions = acc.deferred],
          err |-> "none"]

\* The end of one pass of the outer loop of simulate_ships: the speed is
\* updated unless the inner loop raised.  The result is [w, err].
ShipDone(w, i, moved, acc) ==
    IF acc.err # "none"
    THEN [w   |-> [w EXCEPT !.spaceships[i] = moved,
                            !.deferred_actions = acc.deferred],
          err |-> acc.err]
    ELSE [w   |-> [w EXCEPT !.spaceships[i] =
                        [moved EXCEPT !.speed =
                            <<FAdd(moved.speed[1], acc.forcex),
                              FAdd(moved.speed[2], acc.forcey)>>],
                            !.deferred_actions = acc.deferred],
          err |-> "none"]

ShipMoved(w, i, moved) ==
    ShipDone(w, i, moved,
             ShipForces(w.planets, moved, 1,
                        [forcex |-> F(0), forcey |-> F(0),
                         deferred |-> w.deferred_actions, err |-> "none"]))

\* simulate_ships from ship i on, r = [w, err] being the state so far.
RECURSIVE SimulateShipsFrom(_, _)
SimulateShipsFrom(r, i) ==
    IF i > Len(r.w.spaceships) \/ r.err # "none" THEN r
    ELSE SimulateShipsFrom(ShipMoved(r.w, i, MoveShip(r.w.spaceships[i])),
                           i + 1)

simulate_ships(w) == SimulateShipsFrom([w |-> w, err |-> "none"], 1)

\* Index of the first ship with identity id, 0 if there is none.
RECURSIVE IndexOf(_, _, _)
IndexOf(spaceships, id, i) ==
    IF i > Len(spaceships) THEN 0
    ELSE IF spaceships[i].id = id THEN i
    ELSE IndexOf(spaceships, id, i + 1)

RemoveAt(seq, i) == SubSeq(seq, 1, i - 1) \o SubSeq(seq, i + 1, Len(seq))

RemoveIndex(spaceships, i) ==
    IF i = 0
    THEN [spaceships |-> spaceships, err |-> "ValueError"]
    ELSE [spaceships |-> RemoveAt(spaceships, i), err |-> "none"]

\* DestroyShipLater.do: world.spaceships.remove(spaceship); list.remove
\* raises ValueError when the ship is not in the list.
DestroyShipLater_do(spaceships, id) ==
    RemoveIndex(spaceships, IndexOf(spaceships, id, 1))

ActionDone(w, d) ==
    IF d.err # "none" THEN [w |-> w, err |-> d.err]
    ELSE [w |-> [w EXCEPT !.spaceships = d.spaceships], err |-> "none"]

\* process_waiting from action k on; the list is emptied when the loop
\* has ended, and left as it is when an action raised.
RECURSIVE ProcessWaitingFrom(_, _)
ProcessWaitingFrom(r, k) ==
    IF r.err # "none" THEN r
    ELSE IF k > Len(r.w.deferred_actions)
    THEN [w |-> [r.w EXCEPT !.deferred_actions = <<>>], err |-> "none"]
    ELSE ProcessWaitingFrom(
             ActionDone(r.w, DestroyShipLater_do(r.w.spaceships,
                                                 r.w.deferred_actions[k])),
             k + 1)

\* A drain that runs the actions and keeps them in the list.
process_waiting_keep(w) ==
    [ProcessWaitingFrom([w |-> w, err |-> "none"], 1)
        EXCEPT !.w.deferred_actions = w.deferred_actions]

process_waiting(w) == ProcessWaitingFrom([w |-> w, err |-> "none"], 1)

\* A speed update that moves the planet at once.
PlanetForce_moving(r, i, force) ==
    IF force.err # "none" THEN [r EXCEPT !.err = force.err]
    ELSE IF IsZero(r.planets[i].mass)
    THEN [r EXCEPT !.err = "ZeroDivisionError"]
    ELSE [r EXCEPT !.planets[i].speed =
             <<FAdd(r.planets[i].speed[1],
                    FDiv(FAdd(F(0), force.x), r.planets[i].mass)),
               FAdd(r.planets[i].speed[2],
                    FDiv(FAdd(F(0), force.y), r.planets[i].mass))>>,
                    !.planets[i].position =
             <<FAdd(r.planets[i].position[1],
                    FDiv(FAdd(F(0), force.x), r.planets[i].mass)),
               FAdd(r.planets[i].position[2],
                    FDiv(FAdd(F(0), force.y), r.planets[i].mass))>>]

\* One pass of the loop of simulate_planets for planet1 = planets[i]:
\* planet1.speed += force / planet1.mass; the division raises for mass 0.
PlanetForce(r, i, force) ==
    IF force.err # "none" THEN [r EXCEPT !.err = force.err]
    ELSE IF IsZero(r.planets[i].mass)
    THEN [r EXCEPT !.err = "ZeroDivisionError"]
    ELSE [r EXCEPT !.planets[i].speed =
             <<FAdd(r.planets[i].speed[1],
                    FDiv(FAdd(F(0), force.x), r.planets[i].mass)),
               FAdd(r.planets[i].speed[2],
                    FDiv(FAdd(F(0), force.y), r.planets[i].mass))>>]

PlanetPair(r, i, planet1, planet2) ==
    PlanetForce(r, i,
        gravity_force(planet1, planet2, distance(planet2, planet1)))

\* The loop of simulate_planets over itertools.product(planets, planets),
\* from pair number k (0-based, row-major) on, r = [planets, err] being
\* the state so far; positions are not touched.
RECURSIVE PlanetPairsFrom(_, _, _)
PlanetPairsFrom(r, k, n) ==
    IF k >= n * n \/ r.err # "none" THEN r
    ELSE IF k \div n = k % n THEN PlanetPairsFrom(r, k + 1, n)
    ELSE PlanetPairsFrom(
             PlanetPair(r, (k \div n) + 1, r.planets[(k \div n) + 1],
                        r.planets[(k % n) + 1]),
             k + 1, n)

\* The loop of move_planets from planet number i on.
RECURSIVE MovePlanetsFrom(_, _)
MovePlanetsFrom(planets, i) ==
    IF i > Len(planets) THEN planets
    ELSE MovePlanetsFrom(
             [planets EXCEPT ![i].position =
                 <<FAdd(planets[i].position[1], planets[i].speed[1]),
                   FAdd(planets[i].position[2], planets[i].speed[2])>>],
             i + 1)

\* World.move_planets
move_planets(planets) == MovePlanetsFrom(planets, 1)

PlanetsDone(w, r) ==
    IF r.err # "none"
    THEN [w |-> [w EXCEPT !.planets = r.planets], err |-> r.err]
    ELSE [w |-> [w EXCEPT !.planets = move_planets(r.planets)],
          err |-> "none"]

simulate_planets(w) ==
    PlanetsDone(w, PlanetPairsFrom([planets |-> w.planets, err |-> "none"],
                                   0, Len(w.planets)))

\* A step runs only when the steps before it returned.
AfterShips(a) == IF a.err # "none" THEN a ELSE process_waiting(a.w)

AfterWaiting(b) == IF b.err # "none" THEN b ELSE simulate_planets(b.w)

\* World.tick: simulate_ships, process_waiting, simulate_planets; an
\* exception ends the call where it is raised.  The result is [w, err],
\* w being the world as the call left it.
tick(w) == AfterWaiting(AfterShips(simulate_ships(w)))

\* --------------------------------------------------------------- World()

SCREEN_WIDTH == 800

SCREEN_HEIGHT == 600

\* The float written n / 1000 in decimal: 1.3 is Decimal(1300).
Decimal(n) == FDiv(F(n), F(1000))

\* self.planets of World.__init__
World_planets ==
    << Planet(<<FDiv(F(SCREEN_WIDTH), F(2)), FDiv(F(SCREEN_HEIGHT), F(2))>>,
              F(100), F(20), <<Decimal(-200), F(0)>>),
       Planet(<<FDiv(F(SCREEN_WIDTH), F(2)),
                FDiv(F(SCREEN_HEIGHT), Decimal(1300))>>,
              F(20), F(5), <<F(1), F(0)>>) >>

\* ship of World.__init__, placed relative to planets[0]
World_ship(planet) ==
    SpaceShip(1,
              <<FAdd(planet.position[1], FDiv(F(SCREEN_WIDTH), F(4))),
                FAdd(planet.position[2], FDiv(F(SCREEN_HEIGHT), F(4)))>>,
              <<Decimal(200), Decimal(-500)>>)

\* count of random_spaceships
count == 10

\* The largest ship id of the list, 0 for the empty list.
LastId(spaceships) ==
    IF spaceships = <<>> THEN 0
    ELSE CHOOSE m \in {spaceships[i].id : i \in 1..Len(spaceships)} :
             \A i \in 1..Len(spaceships) : spaceships[i].id <= m

\* Ship number d of random_spaceships, r = <<a, b, c>> being what
\* random.random() returned for its x, for its y and for its speed:
\* position (radius*d + position[0] + radius*a,
\*           radius*d + position[1] + radius*b),
\* speed (c * 1.3*planet.speed[0], planet.speed[1] * 1.1).
RandomShip(id, planet, d, r) ==
    SpaceShip(id,
              <<FAdd(FAdd(FMul(planet.radius, F(d)), planet.position[1]),
                     FMul(planet.radius, r[1])),
                FAdd(FAdd(FMul(planet.radius, F(d)), planet.position[2]),
                     FMul(planet.radius, r[2]))>>,
              <<FMul(FMul(r[3], Decimal(1300)), planet.speed[1]),
                FMul(planet.speed[2], Decimal(1100))>>)

\* World.random_spaceships: count ships are appended around planets[1];
\* r[d + 1] holds the random values of ship d.
random_spaceships(w, r) ==
    [w EXCEPT !.spaceships =
        w.spaceships
        \o [d \in 1..count |->
               RandomShip(LastId(w.spaceships) + d, w.planets[2], d - 1,
                          r[d])]]

\* World.__init__
World_init(r) ==
    random_spaceships(NewWorld(World_planets,
                               <<World_ship(World_planets[1])>>), r)

\* What random.random() returns is a multiple of 2^-53 in [0, 1): 0.5 is
\* one, and so are the doubles written 0.6, 0.8 and 0.9.

\* Three values <<a, b, c>> that put a ship inside the radius of
\* planets[1] when it is ship 0.
DrawInside == <<Decimal(500), Decimal(500), Decimal(500)>>

\* Ship 0 at the radius exactly (3, 4, 5) and at rest.
DrawAtRadius == <<Decimal(600), Decimal(800), F(0)>>

\* Ship 0 on the planet and at rest.
DrawOnPlanet == <<F(0), F(0), F(0)>>

\* Ship 0 beside the planet, on its y coordinate.
DrawBeside == <<Decimal(800), F(0), Decimal(900)>>

\* The random values of one random_spaceships call: r for ship number at,
\* and the same three halves for each of the other ships.
Stream(at, r) == [d \in 1..count |-> IF d = at THEN r ELSE DrawInside]

\* The values of ship 0 vary.
RandomStreams ==
    {Stream(1, r) : r \in {DrawInside, DrawAtRadius, DrawOnPlanet, DrawBeside}}

\* The values of the calls the caller makes.
ScatterStreams == {Stream(1, r) : r \in {DrawInside, DrawAtRadius}}

\* The values of the last ship, far from the planet, vary.
OrbitStreams ==
    {Stream(count, <<a, Decimal(500), Decimal(500)>>) :
        a \in {F(0), Decimal(125), Decimal(250), Decimal(500), Decimal(750)}}

\* The arguments the runs of the model pass to x ** 2 at which the pow of
\* glibc 2.36 returns the other double.
PowFar ==
    { [neg |-> FALSE, exp |-> -49, sig |-> <<10720, 1887, 12163, 1385>>],
      [neg |-> FALSE, exp |-> -49, sig |-> <<12928, 13188, 1324, 1809>>],
      [neg |-> FALSE, exp |-> -48, sig |-> <<16368, 16383, 16383, 1199>>],
      [neg |-> FALSE, exp |-> -45, sig |-> <<13022, 12096, 12836, 1350>>],
      [neg |-> FALSE, exp |-> -45, sig |-> <<11548, 6982, 16047, 1510>>],
      [neg |-> FALSE, exp |-> -45, sig |-> <<1049, 5193, 6207, 1590>>],
      [neg |-> FALSE, exp |-> -45, sig |-> <<10278, 7530, 9487, 1676>>],
      [neg |-> FALSE, exp |-> -45, sig |-> <<15324, 8236, 7379, 1716>>] }

\* The libraries: one whose pow is rounded to nearest, and glibc 2.36.
Libms == {{}, PowFar}

\* ------------------------------------------------------------ Simulation

VARIABLES
    heap,      \* the World objects: heap[id] is the state of object id
    _futures,  \* Simulation._futures, a list of object ids
    pc,        \* "new": World built, Simulation not; "running"; "failed"
    err,       \* the exception of the last call, or "none"
    calls,     \* calls made: of Simulation.tick(), of World methods
    ticks,     \* tick() calls that returned
    W0,        \* object 1 as it was when the last call on it was made
    scatters   \* the value of pc at each world.random_spaceships() call

VARIABLES
    lpc,               \* game_loop: "off" (not called), "start", "poll",
                       \* "draw", "tick", "push", "limit", "returned",
                       \* "raised"
    viewport,          \* the Viewport object: [coordinates, zoom]
    polled,            \* events other than NOEVENT polled so far
    frames,            \* viewport.draw() calls made
    drawn,             \* the current_world the last viewport.draw() read
    current_frame,     \* game_loop's current_frame
    frame_statistics,  \* the Statistics object
    pushed,            \* every sample pushed, oldest first
    since              \* the samples pushed since the last reset()

VARIABLES
    tpc,       \* the method of World running on object 1: "off" (not
               \* stepped through), "idle", "ships", "waiting", "planets",
               \* "raised"
    ti,        \* the loop index of the phase
    entry      \* the method the caller called last, "none" before

VARIABLES
    bodies     \* the objects the caller's Planet(...) and SpaceShip(...)
               \* calls returned

simvars == <<heap, _futures, pc, err, calls, ticks, W0, scatters>>

loopvars == <<lpc, viewport, polled, frames, drawn, current_frame>>

statvars == <<frame_statistics, pushed, since>>

tickvars == <<tpc, ti, entry>>

vars == <<heap, _futures, pc, err, calls, ticks, W0, scatters, lpc,
          viewport, polled, frames, drawn, current_frame, frame_statistics,
          pushed, since, tpc, ti, entry, bodies, libm>>

\* copy.deepcopy(world): a new object with an equal, independent state.
deepcopy(h, id) == [heap |-> Append(h, h[id]), id |-> Len(h) + 1]

\* A pop that removes nothing.
pop0_none(f) == f

\* self._futures.pop(0)
pop0(f) == Tail(f)

\* tick has mutated object id in place and returned it (t.err = "none"),
\* or raised: then nothing is appended.
Ticked(h, f, id, t) ==
    [heap    |-> [h EXCEPT ![id] = t.w],
     futures |-> IF t.err = "none" THEN Append(f, id) ELSE f,
     err     |-> t.err]

TickCopy(f, c) == Ticked(c.heap, f, c.id, tick(c.heap[c.id]))

\* self._futures.append(copy.deepcopy(self._futures[-1]).tick())
AppendTick(h, f) == TickCopy(f, deepcopy(h, f[Len(f)]))

\* The loop of Simulation.__init__ with n iterations left, r being the
\* result of the statement before.
RECURSIVE FillFutures(_, _)
FillFutures(r, n) ==
    IF n = 0 \/ r.err # "none" THEN r
    ELSE FillFutures(AppendTick(r.heap, r.futures), n - 1)

\* Simulation.current_world
current_world == heap[_futures[1]]

\* Simulation.futures
futures == SubSeq(_futures, 2, Len(_futures))

\* -------------------------------------------------------------- Viewport
\* A method of Viewport reaches the viewport itself and, through
\* self.simulation, the buffer and the worlds in it: o = [viewport,
\* _futures, heap] holds these objects, and the method returns them as it
\* leaves them.

SCROLL_STEP == 100

ZOOM_STEP == 2

Reach(vp, f, h) == [viewport |-> vp, _futures |-> f, heap |-> h]

\* Viewport.__init__
Viewport_init ==
    [coordinates |-> <<F(0), F(0), F(SCREEN_WIDTH), F(SCREEN_HEIGHT)>>,
     zoom        |-> F(1)]

\* self.SCROLL_STEP * (1.0 / self.zoom)
ScrollBy(vp) == FMul(F(SCROLL_STEP), FDiv(F(1), vp.zoom))

Viewport_left(o) ==
    [o EXCEPT !.viewport.coordinates[1] =
                  FSub(o.viewport.coordinates[1], ScrollBy(o.viewport))]

Viewport_right(o) ==
    [o EXCEPT !.viewport.coordinates[1] =
                  FAdd(o.viewport.coordinates[1], ScrollBy(o.viewport))]

Viewport_up(o) ==
    [o EXCEPT !.viewport.coordinates[2] =
                  FSub(o.viewport.coordinates[2], ScrollBy(o.viewport))]

Viewport_down(o) ==
    [o EXCEPT !.viewport.coordinates[2] =
                  FAdd(o.viewport.coordinates[2], ScrollBy(o.viewport))]

Viewport_zoom_in(o) ==
    [o EXCEPT !.viewport.zoom = FMul(o.viewport.zoom, F(ZOOM_STEP))]

Viewport_zoom_out(o) ==
    [o EXCEPT !.viewport.zoom = FDiv(o.viewport.zoom, F(ZOOM_STEP))]

\* A draw that takes the world it draws out of the buffer.
Viewport_draw_popping(o) ==
    [objects |-> [o EXCEPT !._futures = Tail(o._futures)],
     shown   |-> o.heap[o._futures[1]]]

\* Viewport.draw: self.simulation.current_world and the worlds of
\* self.simulation.futures are read and handed to pygame; shown is the
\* current_world read.
Viewport_draw(o) ==
    [objects |-> o, shown |-> o.heap[o._futures[1]]]

\* The events pygame.event.poll() returns: NOEVENT, QUIT, a KEYDOWN with
\* one of the six keys of the loop or another key, and any other event.
Events ==
    { "NOEVENT", "QUIT", "K_LEFT", "K_RIGHT", "K_UP", "K_DOWN", "K_MINUS",
      "K_EQUALS", "K_OTHER", "OTHER" }

\* The branch of game_loop taken for a KEYDOWN event, or for another event.
KeyDown(o, e) ==
    CASE e = "K_LEFT"   -> Viewport_left(o)
      [] e = "K_RIGHT"  -> Viewport_right(o)
      [] e = "K_UP"     -> Viewport_up(o)
      [] e = "K_DOWN"   -> Viewport_down(o)
      [] e = "K_MINUS"  -> Viewport_zoom_out(o)
      [] e = "K_EQUALS" -> Viewport_zoom_in(o)
      [] OTHER          -> o

\* ------------------------------------------------------------ Statistics

\* An integer as <<high part, low 16 bits>>, so that 2**31 can be written.
Wide(i) == [hi |-> i \div 65536, lo |-> i % 65536]

WideLeq(a, b) == a.hi < b.hi \/ (a.hi = b.hi /\ a.lo <= b.lo)

WideMin(a, b) == IF WideLeq(a, b) THEN a ELSE b

Max(a, b) == IF a >= b THEN a ELSE b

\* Statistics.reset: max_sample = 0.0, min_sample = 2**31 (32768 * 65536)
Statistics_reset(st) ==
    [st EXCEPT !.max_sample = 0, !.min_sample = [hi |-> 32768, lo |-> 0]]

\* Statistics.__init__
Statistics_init ==
    Statistics_reset([sample_count   |-> SampleCount,
                      samples        |-> [i \in 1..SampleCount |-> 0],
                      sum_of_samples |-> 0,
                      max_sample     |-> 0,
                      min_sample     |-> Wide(0)])

\* A push that forgets to subtract the sample that leaves the window.
Statistics_push_nosub(st, sample) ==
    [st EXCEPT !.sum_of_samples = st.sum_of_samples + sample,
               !.samples = Append(Tail(st.samples), sample),
               !.max_sample = Max(sample, st.max_sample),
               !.min_sample = WideMin(Wide(sample), st.min_sample)]

\* Statistics.push
Statistics_push(st, sample) ==
    [st EXCEPT !.sum_of_samples = (st.sum_of_samples - Head(st.samples))
                                  + sample,
               !.samples = Append(Tail(st.samples), sample),
               !.max_sample = Max(sample, st.max_sample),
               !.min_sample = WideMin(Wide(sample), st.min_sample)]

\* ----------------------------------------------------------------- actions

\* world = World() has returned, nothing was called on world yet.
InitWorld(streams, libms) ==
    /\ \E r \in streams :
          /\ heap = <<World_init(r)>>
          /\ W0 = World_init(r)
    /\ libm \in libms
    /\ _futures = <<>>
    /\ pc = "new"
    /\ err = "none"
    /\ calls = 0
    /\ ticks = 0
    /\ scatters = <<>>

\* game_loop is not running; its locals have their first values.
IdleLoop ==
    /\ lpc = "off"
    /\ viewport = Viewport_init
    /\ polled = 0
    /\ frames = 0
    /\ drawn = <<>>
    /\ current_frame = 0

IdleStats ==
    /\ frame_statistics = Statistics_init
    /\ pushed = <<>>
    /\ since = <<>>

\* No method of World is stepped through.
IdleTick ==
    /\ tpc = "off"
    /\ ti = 0
    /\ entry = "none"

Init ==
    /\ InitWorld(RandomStreams, Libms)
    /\ IdleLoop
    /\ IdleStats
    /\ IdleTick
    /\ bodies = <<>>

\* simulation = Simulation(world)
Simulation_init_call ==
    /\ pc = "new"
    /\ LET r == FillFutures([heap |-> heap, futures |-> <<1>>,
                             err |-> "none"], FutureStepCount)
       IN  /\ heap' = r.heap
           /\ err' = r.err
           /\ IF r.err = "none"
              THEN pc' = "running" /\ _futures' = r.futures
              ELSE pc' = "failed" /\ _futures' = <<>>
    /\ W0' = heap[1]
    /\ UNCHANGED <<calls, ticks, scatters>>

Simulation_init ==
    /\ Simulation_init_call
    /\ UNCHANGED <<loopvars, statvars, tickvars, bodies, libm>>

\* simulation.tick()
Simulation_tick_call ==
    /\ pc = "running"
    /\ calls < MaxCalls
    /\ LET r == AppendTick(heap, _futures)
       IN  /\ heap' = r.heap
           /\ err' = r.err
           /\ IF r.err = "none"
              THEN _futures' = pop0(r.futures) /\ ticks' = ticks + 1
              ELSE _futures' = _futures /\ ticks' = ticks
    /\ calls' = calls + 1
    /\ UNCHANGED <<pc, W0, scatters>>

Simulation_tick ==
    /\ Simulation_tick_call
    /\ UNCHANGED <<loopvars, statvars, tickvars, bodies, libm>>

\* world.random_spaceships(), called by the holder of world
World_random_spaceships ==
    /\ Len(scatters) < MaxScatter
    /\ \E r \in ScatterStreams :
          heap' = [heap EXCEPT ![1] = random_spaceships(heap[1], r)]
    /\ scatters' = Append(scatters, pc)
    /\ UNCHANGED <<_futures, pc, err, calls, ticks, W0, loopvars, statvars,
                   tickvars, bodies, libm>>

Next == Simulation_init \/ Simulation_tick \/ World_random_spaceships

Spec == Init /\ [][Next]_vars

\* ------------------------------------------------------- the constructors

\* The arguments of the constructor calls.
BodyPositions == {<<F(450), F(300)>>}

BodyMasses == {F(-4), F(0), F(100)}

BodyRadii == {F(0), F(20)}

\* Planet(position, mass, radius, speed)
Planet_init ==
    /\ Len(bodies) < MaxBodies
    /\ \E position \in BodyPositions, mass \in BodyMasses,
          radius \in BodyRadii :
          bodies' = Append(bodies,
                           Planet(position, mass, radius, <<F(0), F(0)>>))
    /\ UNCHANGED <<simvars, loopvars, statvars, tickvars, libm>>

\* SpaceShip(position, speed, rgb)
SpaceShip_init ==
    /\ Len(bodies) < MaxBodies
    /\ \E position \in BodyPositions :
          bodies' = Append(bodies,
                           SpaceShip(Len(bodies) + 1, position,
                                     <<F(0), F(0)>>))
    /\ UNCHANGED <<simvars, loopvars, statvars, tickvars, libm>>

InitCfg ==
    /\ InitWorld({Stream(1, DrawInside)}, {PowFar})
    /\ IdleLoop
    /\ IdleStats
    /\ IdleTick
    /\ bodies = <<>>

NextCfg == Planet_init \/ SpaceShip_init \/ Simulation_init

SpecCfg == InitCfg /\ [][NextCfg]_vars

\* ---------------------------------------------------------------- game_loop

framerate_limit == 60

\* The values frame_timer.get_time() returns: milliseconds, an integer >= 0.
FrameTimes == 0..MaxFrameTime

\* The worlds of SpecLoop: ship 0 inside the radius, or on the planet.
LoopStreams == {Stream(1, r) : r \in {DrawInside, DrawOnPlanet}}

\* game_loop(world) entered: current_frame = 0, frame_statistics built.
InitLoop ==
    /\ InitWorld(LoopStreams, {PowFar})
    /\ lpc = "start"
    /\ viewport = Viewport_init
    /\ polled = 0
    /\ frames = 0
    /\ drawn = <<>>
    /\ current_frame = 0
    /\ IdleStats
    /\ IdleTick
    /\ bodies = <<>>

\* The objects are as the Viewport method left them.
Reached(o) ==
    /\ viewport' = o.viewport
    /\ _futures' = o._futures
    /\ heap' = o.heap

\* simulation = Simulation(world); viewport = Viewport(simulation, screen)
game_loop_start ==
    /\ lpc = "start"
    /\ Simulation_init_call
    /\ lpc' = IF err' = "none" THEN "poll" ELSE "raised"
    /\ viewport' = Viewport_init
    /\ UNCHANGED <<polled, frames, drawn, current_frame, statvars, tickvars,
                   bodies, libm>>

\* The event loop with a key press that advances the simulation as well.
game_loop_poll_ticking ==
    /\ lpc = "poll"
    /\ \E e \in Events :
          /\ e = "NOEVENT" \/ polled < MaxEvents
          /\ lpc' = CASE e = "NOEVENT" -> "draw"
                      [] e = "QUIT"    -> "returned"
                      [] OTHER         -> "poll"
          /\ viewport' = KeyDown(Reach(viewport, _futures, heap), e).viewport
          /\ polled' = IF e = "NOEVENT" THEN polled ELSE polled + 1
          /\ IF e \in {"NOEVENT", "QUIT", "OTHER"}
             THEN UNCHANGED simvars
             ELSE Simulation_tick_call /\ err' = "none"
    /\ UNCHANGED <<frames, drawn, current_frame, statvars, tickvars, bodies,
                   libm>>

\* event = pygame.event.poll() and one pass of the event loop: NOEVENT
\* ends the loop, QUIT returns from game_loop, a key calls a method of
\* the viewport.
game_loop_poll ==
    /\ lpc = "poll"
    /\ \E e \in Events :
          /\ e = "NOEVENT" \/ polled < MaxEvents
          /\ lpc' = CASE e = "NOEVENT" -> "draw"
                      [] e = "QUIT"    -> "returned"
                      [] OTHER         -> "poll"
          /\ Reached(KeyDown(Reach(viewport, _futures, heap), e))
          /\ polled' = IF e = "NOEVENT" THEN polled ELSE polled + 1
    /\ UNCHANGED <<pc, err, calls, ticks, W0, scatters, frames, drawn,
                   current_frame, statvars, tickvars, bodies, libm>>

\* viewport.draw()
game_loop_draw ==
    /\ lpc = "draw"
    /\ Reached(Viewport_draw(Reach(viewport, _futures, heap)).objects)
    /\ drawn' = Viewport_draw(Reach(viewport, _futures, heap)).shown
    /\ frames' = frames + 1
    /\ lpc' = "tick"
    /\ UNCHANGED <<pc, err, calls, ticks, W0, scatters, polled,
                   current_frame, statvars, tickvars, bodies, libm>>

\* simulation.tick() of the loop; an exception ends game_loop.
game_loop_tick ==
    /\ lpc = "tick"
    /\ Simulation_tick_call
    /\ lpc' = IF err' = "none" THEN "push" ELSE "raised"
    /\ UNCHANGED <<viewport, polled, frames, drawn, current_frame, statvars,
                   tickvars, bodies, libm>>

\* frame_timer.tick(); frame_time = frame_timer.get_time();
\* frame_statistics.push(frame_time)
game_loop_push ==
    /\ lpc = "push"
    /\ \E t \in FrameTimes :
          /\ frame_statistics' = Statistics_push(frame_statistics, t)
          /\ pushed' = Append(pushed, t)
          /\ since' = Append(since, t)
    /\ lpc' = "limit"
    /\ UNCHANGED <<viewport, polled, frames, drawn, current_frame, simvars,
                   tickvars, bodies, libm>>

\* framerate_limiter.tick(framerate_limit) has returned: current_frame
\* += 1, and every framerate_limit frames the statistics are printed and
\* reset.
game_loop_limit ==
    /\ lpc = "limit"
    /\ IF (current_frame + 1) % framerate_limit = 0
       THEN /\ current_frame' = 0
            /\ frame_statistics' = Statistics_reset(frame_statistics)
            /\ since' = <<>>
       ELSE /\ current_frame' = current_frame + 1
            /\ UNCHANGED <<frame_statistics, since>>
    /\ lpc' = "poll"
    /\ UNCHANGED <<viewport, polled, frames, drawn, pushed, simvars,
                   tickvars, bodies, libm>>

NextLoop ==
    \/ game_loop_start
    \/ game_loop_poll
    \/ game_loop_draw
    \/ game_loop_tick
    \/ game_loop_push
    \/ game_loop_limit

SpecLoop == InitLoop /\ [][NextLoop]_vars

\* ---------------------------------------- the methods of World, step by step
\* The methods of World called on object 1, one loop pass at a time,
\* built from the operators of the loop bodies above.  An exception that
\* leaves the call ends the run.

InitTick ==
    /\ InitWorld(RandomStreams, {PowFar})
    /\ IdleLoop
    /\ IdleStats
    /\ tpc = "idle"
    /\ ti = 0
    /\ entry = "none"
    /\ bodies = <<>>

\* The caller calls method on world, which starts in phase; W0 keeps the
\* world as it was at the call.
Called(method, phase, i) ==
    /\ calls < MaxWorldCalls
    /\ entry' = method
    /\ tpc' = phase
    /\ ti' = i
    /\ W0' = heap[1]
    /\ calls' = calls + 1
    /\ UNCHANGED <<heap, _futures, pc, err, ticks, scatters, loopvars,
                   statvars, bodies, libm>>

\* world.tick()
World_tick_call ==
    /\ tpc = "idle"
    /\ Called("tick", "ships", 1)

\* world.simulate_ships()
World_simulate_ships_call ==
    /\ tpc = "idle"
    /\ Called("simulate_ships", "ships", 1)

\* world.process_waiting()
World_process_waiting_call ==
    /\ tpc = "idle"
    /\ Called("process_waiting", "waiting", 1)

\* world.simulate_planets()
World_simulate_planets_call ==
    /\ tpc = "idle"
    /\ Called("simulate_planets", "planets", 0)

\* world.move_planets()
World_move_planets_call ==
    /\ tpc = "idle"
    /\ Called("move_planets", "moving", 0)

\* The step has left object 1 as r.w; an exception ends the call.
Stepped1(r, phase, i) ==
    /\ heap' = [heap EXCEPT ![1] = r.w]
    /\ err' = r.err
    /\ tpc' = IF r.err = "none" THEN phase ELSE "raised"
    /\ ti' = i
    /\ UNCHANGED <<_futures, pc, calls, ticks, W0, scatters, entry, loopvars,
                   statvars, bodies, libm>>

\* The phase ends without a change to the world.
PhaseDone(phase, i) ==
    /\ tpc' = phase
    /\ ti' = i
    /\ UNCHANGED <<simvars, entry, loopvars, statvars, bodies, libm>>

\* One pass of the outer loop of simulate_ships.
simulate_ships_step ==
    /\ tpc = "ships"
    /\ ti <= Len(heap[1].spaceships)
    /\ Stepped1(ShipMoved(heap[1], ti, MoveShip(heap[1].spaceships[ti])),
                "ships", ti + 1)

\* simulate_ships returns: to tick, which calls process_waiting, or to
\* the caller.
simulate_ships_return ==
    /\ tpc = "ships"
    /\ ti > Len(heap[1].spaceships)
    /\ IF entry = "tick" THEN PhaseDone("waiting", 1)
                         ELSE PhaseDone("idle", 0)

\* One pass of the loop of process_waiting.
process_waiting_step ==
    /\ tpc = "waiting"
    /\ ti <= Len(heap[1].deferred_actions)
    /\ Stepped1(ActionDone(heap[1],
                    DestroyShipLater_do(heap[1].spaceships,
                                        heap[1].deferred_actions[ti])),
                "waiting", ti + 1)

\* self.deferred_actions = []; process_waiting returns: to tick, which
\* calls simulate_planets, or to the caller.
process_waiting_return ==
    /\ tpc = "waiting"
    /\ ti > Len(heap[1].deferred_actions)
    /\ Stepped1([w   |-> [heap[1] EXCEPT !.deferred_actions = <<>>],
                 err |-> "none"],
                IF entry = "tick" THEN "planets" ELSE "idle", 0)

\* r = [planets, err] as one pass of the loop of simulate_planets left it.
PairDone(w, r) == [w |-> [w EXCEPT !.planets = r.planets], err |-> r.err]

\* One pass of the loop of simulate_planets, for pair number ti of
\* itertools.product(planets, planets); a planet paired with itself is
\* skipped.
simulate_planets_step ==
    /\ tpc = "planets"
    /\ ti < Len(heap[1].planets) * Len(heap[1].planets)
    /\ IF ti \div Len(heap[1].planets) = ti % Len(heap[1].planets)
       THEN PhaseDone("planets", ti + 1)
       ELSE Stepped1(
                PairDone(heap[1],
                    PlanetPair([planets |-> heap[1].planets, err |-> "none"],
                        (ti \div Len(heap[1].planets)) + 1,
                        heap[1].planets[(ti \div Len(heap[1].planets)) + 1],
                        heap[1].planets[(ti % Len(heap[1].planets)) + 1])),
                "planets", ti + 1)

\* The loop of simulate_planets has ended: self.move_planets() is called.
simulate_planets_return ==
    /\ tpc = "planets"
    /\ ti >= Len(heap[1].planets) * Len(heap[1].planets)
    /\ PhaseDone("moving", 0)

\* move_planets runs and returns, and with it simulate_planets and tick.
move_planets_return ==
    /\ tpc = "moving"
    /\ heap' = [heap EXCEPT ![1].planets = move_planets(heap[1].planets)]
    /\ tpc' = "idle"
    /\ ti' = 0
    /\ ticks' = IF entry = "tick" THEN ticks + 1 ELSE ticks
    /\ UNCHANGED <<_futures, pc, err, calls, W0, scatters, entry, loopvars,
                   statvars, bodies, libm>>

NextTick ==
    \/ World_tick_call
    \/ World_simulate_ships_call
    \/ World_process_waiting_call
    \/ World_simulate_planets_call
    \/ World_move_planets_call
    \/ simulate_ships_step
    \/ simulate_ships_return
    \/ process_waiting_step
    \/ process_waiting_return
    \/ simulate_planets_step
    \/ simulate_planets_return
    \/ move_planets_return

SpecTick == InitTick /\ [][NextTick]_vars

\* ------------------------------------------------------ world.tick(), whole

InitOrbit ==
    /\ InitWorld(OrbitStreams, Libms)
    /\ IdleLoop
    /\ IdleStats
    /\ IdleTick
    /\ bodies = <<>>

\* world.tick(), called by the holder of world
World_tick ==
    /\ calls < MaxWorldTicks
    /\ err = "none"
    /\ LET r == tick(heap[1])
       IN  /\ heap' = [heap EXCEPT ![1] = r.w]
           /\ err' = r.err
           /\ ticks' = IF r.err = "none" THEN ticks + 1 ELSE ticks
    /\ calls' = calls + 1
    /\ W0' = heap[1]
    /\ UNCHANGED <<_futures, pc, scatters, loopvars, statvars, tickvars,
                   bodies, libm>>

NextOrbit == World_tick

SpecOrbit == InitOrbit /\ [][NextOrbit]_vars

\* --------------------------------------------------- Statistics, by itself
\* A Statistics object under any sequence of push and reset calls.

\* The samples pushed: integers, among them 0 and a negative one.
Samples == {-3, 0, 16}

\* No World has been built.
InitStats ==
    /\ heap = <<>>
    /\ W0 = <<>>
    /\ libm = {}
    /\ _futures = <<>>
    /\ pc = "new"
    /\ err = "none"
    /\ calls = 0
    /\ ticks = 0
    /\ scatters = <<>>
    /\ IdleLoop
    /\ IdleStats
    /\ IdleTick
    /\ bodies = <<>>

\* frame_statistics.push(sample)
Statistics_push_call ==
    /\ Len(pushed) < MaxPushes
    /\ \E sample \in Samples :
          /\ frame_statistics' = Statistics_push(frame_statistics, sample)
          /\ pushed' = Append(pushed, sample)
          /\ since' = Append(since, sample)
    /\ UNCHANGED <<simvars, loopvars, tickvars, bodies, libm>>

\* frame_statistics.reset()
Statistics_reset_call ==
    /\ frame_statistics' = Statistics_reset(frame_statistics)
    /\ since' = <<>>
    /\ UNCHANGED <<pushed, simvars, loopvars, tickvars, bodies, libm>>

NextStats == Statistics_push_call \/ Statistics_reset_call

SpecStats == InitStats /\ [][NextStats]_vars

\* ------------------------------------------------------------------ claims

\* tr extended by n more calls of World.tick, each on the world the call
\* before returned; the calls stop at the first one that raises.
RECURSIVE Extend(_, _)
Extend(tr, n) ==
    IF n = 0 THEN tr
    ELSE Extend(Append(tr, IF tr[Len(tr)].err # "none" THEN tr[Len(tr)]
                           ELSE tick(tr[Len(tr)].w)),
                n - 1)

\* Trajectory(w, n)[k + 1] is w stepped with World.tick k times, k in 0..n,
\* as [w, err].
Trajectory(w, n) == Extend(<<[w |-> w, err |-> "none"]>>, n)

\* w stepped with World.tick n times.
StepN(w, n) == Trajectory(w, n)[n + 1]

\* Slot i of the buffer, i in 0..FutureStepCount.
Slot(i) == heap[_futures[i + 1]]

Range(seq) == {seq[i] : i \in 1..Len(seq)}

\* The caller has called random_spaceships on the world it had handed to
\* Simulation, and that world is still slot 0.
Scattered == ticks = 0 /\ "running" \in Range(scatters)

\* C1 (timeline consistency): once the Simulation is built from W0, and
\* after any number k of completed Simulation.tick() calls, every slot i of
\* the buffer equals W0 stepped with World.tick k + i times.
C1_TimelineConsistency ==
    pc = "running" =>
        LET tr == Trajectory(W0, ticks + FutureStepCount)
        IN  \A i \in 0..(Len(_futures) - 1) :
                /\ tr[ticks + i + 1].err = "none"
                /\ Slot(i) = tr[ticks + i + 1].w

\* C3 (buffer length): once the Simulation is built, _futures holds
\* FutureStepCount + 1 worlds, current_world is slot 0, and futures holds
\* the FutureStepCount worlds after slot 0 in buffer order, the i-th of
\* them being W0 stepped ticks + i times (nearest future first).
C3_BufferLength ==
    pc = "running" =>
        LET tr == Trajectory(W0, ticks + FutureStepCount)
        IN  /\ Len(_futures) = FutureStepCount + 1
            /\ current_world = Slot(0)
            /\ Len(futures) = FutureStepCount
            /\ \A i \in 1..Len(futures) :
                  /\ futures[i] = _futures[i + 1]
                  /\ heap[futures[i]] = tr[ticks + i + 1].w

\* C3 witness: the buffer has its nominal length after an advance, and the
\* worlds of futures differ from current_world and from each other.
C3_Witness ==
    /\ pc = "running"
    /\ ticks >= 1
    /\ Len(_futures) = FutureStepCount + 1
    /\ Len(futures) = FutureStepCount
    /\ current_world # heap[futures[1]]
    /\ heap[futures[1]] # heap[futures[FutureStepCount]]

\* C4 (snapshot independence): no step changes a world that is
\* in the buffer, slot 0 included, and a completed Simulation.tick() shifts
\* the window: new slot i is old slot i + 1, the same object with the same
\* state.
C4_SnapshotIndependence ==
    [][ /\ \A id \in Range(_futures) : heap'[id] = heap[id]
        /\ (pc = "running" /\ ticks' = ticks + 1) =>
              \A i \in 1..(Len(_futures) - 1) :
                  /\ _futures'[i] = _futures[i + 1]
                  /\ heap'[_futures'[i]] = heap[_futures[i + 1]] ]_vars

\* Geometry of the claims, stated on positions.

Moved(s) == <<FAdd(s.position[1], s.speed[1]), FAdd(s.position[2], s.speed[2])>>

\* The distance of the points p and q, as math.sqrt gives it.
Dist(p, q) ==
    FSqrt(FAdd(pow2(FSub(p[1], q[1])), pow2(FSub(p[2], q[2]))))

Ids(w) == {w.spaceships[i].id : i \in 1..Len(w.spaceships)}

\* Planets of w whose radius ship s tests inside in the next tick of w.
HitPlanets(w, s) ==
    {j \in 1..Len(w.planets) :
        FLess(Dist(Moved(s), w.planets[j].position), w.planets[j].radius)}

\* Some ship or planet of the next tick of w is at distance 0 of a planet.
Degenerate(w) ==
    \/ \E i \in 1..Len(w.spaceships), j \in 1..Len(w.planets) :
          Moved(w.spaceships[i]) = w.planets[j].position
    \/ \E i, j \in 1..Len(w.planets) :
          i # j /\ w.planets[i].position = w.planets[j].position

\* Some ship is named by two entries of the queue.
QueuedTwice(queue) ==
    \E i, j \in 1..Len(queue) : i # j /\ queue[i] = queue[j]

Successor(i) == i > 0 \/ ~Scattered

\* C5 (destruction outcome of one tick): for every slot i and the slot
\* after it that is slot i stepped once, with the ship's position after its move
\* and the planets' positions in slot i: a ship within some planet's radius
\* is absent from the next slot, every ship present in the next slot was
\* within no radius, and a ship within no radius (at distance exactly the
\* radius, say) is present in the next slot.
C5_DestructionOutcome ==
    pc = "running" =>
        \A i \in 0..(Len(_futures) - 2) :
            Successor(i) =>
                \A k \in 1..Len(Slot(i).spaceships) :
                    (Slot(i).spaceships[k].id \in Ids(Slot(i + 1)))
                        <=> (HitPlanets(Slot(i), Slot(i).spaceships[k]) = {})

\* C5 witness: a ship at distance exactly the radius survived a tick, and
\* a ship inside the radius was removed by a tick.
C5_Witness ==
    /\ pc = "running"
    /\ ~Scattered
    /\ \E i \in 0..(FutureStepCount - 1) :
          \E k \in 1..Len(Slot(i).spaceships) :
              /\ \E j \in 1..Len(Slot(i).planets) :
                    Dist(Moved(Slot(i).spaceships[k]),
                         Slot(i).planets[j].position)
                        = Slot(i).planets[j].radius
              /\ Slot(i).spaceships[k].id \in Ids(Slot(i + 1))
    /\ \E i \in 0..(FutureStepCount - 1) :
          \E m \in 1..Len(Slot(i).spaceships) :
              /\ HitPlanets(Slot(i), Slot(i).spaceships[m]) # {}
              /\ Slot(i).spaceships[m].id \notin Ids(Slot(i + 1))

\* The force of the planet on ship s at point m, on axis a.
PullOn(planet, s, m, a) ==
    LET force == gravity_force(planet, s,
                     DistanceXY(FSub(planet.position[1], m[1]),
                                FSub(planet.position[2], m[2])))
    IN  IF a = 1 THEN force.x ELSE force.y

\* The force on axis a that the planets pull ship s at point m with, as
\* claimed: planets[j] takes part when its coordinate on axis a differs
\* from the ship's; the loop is the one of simulate_ships, from planet j
\* on, sum being the force so far.
RECURSIVE AxisPull(_, _, _, _, _, _)
AxisPull(planets, s, m, a, j, sum) ==
    IF j > Len(planets) THEN sum
    ELSE AxisPull(planets, s, m, a, j + 1,
                  IF planets[j].position[a] = m[a] THEN sum
                  ELSE FAdd(sum, PullOn(planets[j], s, m, a)))

\* C6 (velocity on an axis of equal coordinates), as claimed: in the pass
\* of simulate_ships for a ship in World.tick, a planet whose coordinate on
\* an axis equals the moved ship's adds nothing to the ship's speed on that
\* axis: the speed grows by the pull of the other planets alone.
C6_ScenarioVelocity ==
    [][ (entry = "tick" /\ tpc = "ships" /\ tpc' = "ships" /\ ti' = ti + 1) =>
            \A a \in 1..2 :
                (\E j \in 1..Len(heap[1].planets) :
                    heap[1].planets[j].position[a]
                        = Moved(heap[1].spaceships[ti])[a]) =>
                    heap'[1].spaceships[ti].speed[a] =
                        FAdd(heap[1].spaceships[ti].speed[a],
                             AxisPull(heap[1].planets, heap[1].spaceships[ti],
                                      Moved(heap[1].spaceships[ti]), a, 1,
                                      F(0))) ]_vars

NoShips(w) == [w EXCEPT !.spaceships = <<>>]

C8_ShipsMonotone ==
    /\ [](pc = "running" =>
             \A i \in 0..(Len(_futures) - 2) :
                 /\ Ids(Slot(i + 1)) \subseteq Ids(Slot(i))
                 /\ Len(Slot(i + 1).spaceships) <= Len(Slot(i).spaceships)
                 /\ Successor(i) =>
                        \A k \in 1..Len(Slot(i).spaceships) :
                            Slot(i).spaceships[k].id \notin Ids(Slot(i + 1))
                                => HitPlanets(Slot(i), Slot(i).spaceships[k])
                                       # {})
    /\ [][\A id \in 1..Len(heap) :
              Len(heap'[id].spaceships) <= Len(heap[id].spaceships)]_vars

\* No number of the world is the token Bad.
Representable(w) ==
    /\ \A i \in 1..Len(w.planets) :
          /\ ~IsBad(w.planets[i].position[1])
          /\ ~IsBad(w.planets[i].position[2])
          /\ ~IsBad(w.planets[i].speed[1])
          /\ ~IsBad(w.planets[i].speed[2])
    /\ \A i \in 1..Len(w.spaceships) :
          /\ ~IsBad(w.spaceships[i].position[1])
          /\ ~IsBad(w.spaceships[i].position[2])
          /\ ~IsBad(w.spaceships[i].speed[1])
          /\ ~IsBad(w.spaceships[i].speed[2])

ValidBody(b) == FLess(F(0), b.mass) /\ FLess(F(0), b.radius)

ValidWorld(w) ==
    /\ \A j \in 1..Len(w.planets) : ValidBody(w.planets[j])
    /\ \A k \in 1..Len(w.spaceships) : ValidBody(w.spaceships[k])

\* C10 (invalid configuration is rejected at construction), as claimed:
\* no body of non-positive mass or radius is ever created: every body a
\* constructor returned, and every body of every world of the buffer, has
\* a positive mass and a positive radius.
C10_InvalidRejected ==
    /\ \A i \in 1..Len(bodies) : ValidBody(bodies[i])
    /\ pc = "running" =>
          \A i \in 0..(Len(_futures) - 1) : ValidWorld(Slot(i))

\* C11 (frame cadence): in game_loop every iteration draws once and then
\* calls Simulation.tick() once, whatever events were polled: between
\* iterations the draws, the tick calls and the completed ticks are equal
\* in number, after a draw there is one tick call less, and the world drawn
\* as current by draw number n (n = 1, 2, ...) is W0 stepped n - 1 times.
C11_FrameCadence ==
    /\ [](/\ lpc \in {"poll", "draw", "push", "limit", "returned"} =>
               calls = frames /\ ticks = frames
          /\ lpc = "tick" => calls = frames - 1 /\ ticks = frames - 1
          /\ lpc = "raised" /\ frames > 0 =>
               calls = frames /\ ticks = frames - 1)
    /\ [][frames' # frames =>
             /\ frames' = frames + 1
             /\ LET stepped == StepN(W0, frames)
                IN  stepped.err = "none" /\ drawn' = stepped.w]_vars

\* C11 witness: the third frame has been drawn after events were polled,
\* and it shows a world that differs from the two drawn before.
C11_Witness ==
    /\ lpc = "tick"
    /\ frames = 3
    /\ polled > 0
    /\ drawn = StepN(W0, 2).w
    /\ drawn # StepN(W0, 1).w
    /\ drawn # W0

\* C12 (viewport frame): a step of Viewport.left, right, up, down, zoom_in,
\* zoom_out or draw leaves every World object, the buffer and the rest of
\* the Simulation as they were.
C12_ViewportFrame ==
    [][(viewport' # viewport \/ frames' # frames) =>
          /\ heap' = heap
          /\ _futures' = _futures
          /\ UNCHANGED <<pc, err, calls, ticks, W0>>]_vars

\* C12 witness: the viewport has been scrolled and zoomed and the frame
\* drawn, and the buffer still holds W0 stepped ticks + i times in slot i.
C12_Witness ==
    /\ pc = "running"
    /\ frames > 0
    /\ viewport.zoom # Viewport_init.zoom
    /\ viewport.coordinates # Viewport_init.coordinates
    /\ Len(_futures) = FutureStepCount + 1
    /\ drawn = Slot(0)
    /\ Slot(FutureStepCount) = StepN(W0, ticks + FutureStepCount).w

\* The ship of W0 that has the identity of ship s.
Before(s) ==
    W0.spaceships[CHOOSE j \in 1..Len(W0.spaceships) :
                      W0.spaceships[j].id = s.id]

\* Every ship of object 1 has been moved by its speed at the call.
AllShipsUpdated ==
    \A i \in 1..Len(heap[1].spaceships) :
        /\ heap[1].spaceships[i].id \in Ids(W0)
        /\ heap[1].spaceships[i].position = Moved(Before(heap[1].spaceships[i]))

PlanetPositions(w) == [j \in 1..Len(w.planets) |-> w.planets[j].position]

\* C13 (phase ordering inside one World.tick): while ships are updated and
\* the queue is drained the planets are as they were at the call; a ship is
\* removed only in the drain, after every ship was updated; a planet is
\* changed only after every ship was updated and the queue emptied, and the
\* ship list no longer changes then; every force between planets is
\* computed while all planets are at their positions of the call; and the
\* call returns the world that tick(W0) gives.
C13_PhaseOrder ==
    [][(entry = "tick" /\ tpc # "idle") =>
          /\ tpc \in {"ships", "waiting"} => heap[1].planets = W0.planets
          /\ Len(heap'[1].spaceships) # Len(heap[1].spaceships) =>
                 /\ tpc = "waiting"
                 /\ AllShipsUpdated
                 /\ heap'[1].planets = W0.planets
          /\ heap'[1].planets # heap[1].planets =>
                 /\ tpc \in {"planets", "moving"}
                 /\ AllShipsUpdated
                 /\ heap[1].deferred_actions = <<>>
                 /\ heap'[1].spaceships = heap[1].spaceships
                 /\ heap'[1].deferred_actions = <<>>
          /\ tpc = "planets" =>
                 PlanetPositions(heap'[1]) = PlanetPositions(W0)
          /\ (tpc = "moving" /\ tpc' = "idle") =>
                 /\ tick(W0).err = "none"
                 /\ heap'[1] = tick(W0).w]_vars

\* C13 witness: in a tick all forces between the two planets have been
\* computed, their speeds have changed and their positions have not, after
\* every ship was updated and one was removed in the drain.
C13_Witness ==
    /\ entry = "tick"
    /\ tpc = "moving"
    /\ heap[1].planets # W0.planets
    /\ PlanetPositions(heap[1]) = PlanetPositions(W0)
    /\ Len(heap[1].spaceships) = Len(W0.spaceships) - 1
    /\ AllShipsUpdated
    /\ W0.deferred_actions = <<>>
    /\ heap[1].deferred_actions = <<>>

\* C14 (position before force): in World.tick a ship's position becomes
\* its position at the call plus its speed at the call, whatever force is
\* accumulated: during simulate_ships for the ships already passed, and
\* from then until the call returns for every ship still in the list.
C14_PositionBeforeForce ==
    entry = "tick" =>
        /\ tpc = "ships" =>
               /\ Len(heap[1].spaceships) = Len(W0.spaceships)
               /\ \A i \in 1..Len(W0.spaceships) :
                      heap[1].spaceships[i].position =
                          IF i < ti THEN Moved(W0.spaceships[i])
                                    ELSE W0.spaceships[i].position
        /\ tpc \in {"waiting", "planets", "moving", "idle"} =>
               AllShipsUpdated

\* C14 witness: a tick has returned in which a ship at rest was pulled by
\* the planets: its speed has changed and it is where it was; and a moving
\* ship is at its position of the call plus its speed of the call.
C14_Witness ==
    /\ entry = "tick"
    /\ tpc = "idle"
    /\ \E i, k \in 1..Len(heap[1].spaceships) :
          /\ Before(heap[1].spaceships[i]).speed = <<F(0), F(0)>>
          /\ heap[1].spaceships[i].speed # <<F(0), F(0)>>
          /\ heap[1].spaceships[i].position
                 = Before(heap[1].spaceships[i]).position
          /\ Before(heap[1].spaceships[k]).speed # <<F(0), F(0)>>
          /\ heap[1].spaceships[k].position
                 # Before(heap[1].spaceships[k]).position
          /\ heap[1].spaceships[k].position
                 = Moved(Before(heap[1].spaceships[k]))

\* The change of planet p's speed on one axis that is claimed for the pair
\* (p, q): the magnitude (1 / d^2) * mass_p * mass_q times 1/10, divided by
\* mass_p; dist is the distance of q from p.
DampedChange(p, q, dist) ==
    FDiv(FMul(FMul(FMul(FDiv(F(1), pow2(dist.v)), p.mass), q.mass),
              FDiv(F(1), F(10))),
         p.mass)

\* x is c up to one part in a thousand.
Near(x, c) == FLess(FAbs(FSub(x, c)), FMul(FAbs(c), Decimal(1)))

\* Pair number k of itertools.product over n planets: the indices.
PairFirst(k, n) == (k \div n) + 1

PairSecond(k, n) == (k % n) + 1

\* C15 (planet-planet damping), as claimed: in World.tick, in the pass of
\* simulate_planets for the pair (i, j) of distinct planets, on every axis
\* where the two planets differ, the speed of planet i changes by
\* (1 / d^2) * mass_i * mass_j times 1/10, divided by mass_i, toward j (up
\* to rounding).
C15_PlanetDamping ==
    [][ (entry = "tick" /\ tpc = "planets" /\ tpc' = "planets"
         /\ ti' = ti + 1
         /\ PairFirst(ti, Len(heap[1].planets))
                # PairSecond(ti, Len(heap[1].planets))) =>
            LET p == heap[1].planets[PairFirst(ti, Len(heap[1].planets))]
                q == heap[1].planets[PairSecond(ti, Len(heap[1].planets))]
                after == heap'[1].planets[PairFirst(ti, Len(heap[1].planets))]
                dist == distance(q, p)
            IN  /\ ~IsZero(dist.x) =>
                       Near(FSub(after.speed[1], p.speed[1]),
                            copysign(DampedChange(p, q, dist), dist.x))
                /\ ~IsZero(dist.y) =>
                       Near(FSub(after.speed[2], p.speed[2]),
                            copysign(DampedChange(p, q, dist), dist.y)) ]_vars

\* C16 (the queue is transient): every world World.tick returned has an
\* empty deferred_actions, whether or not a request was queued in the tick,
\* and every world of the buffer has an empty deferred_actions.
C16_QueueTransient ==
    /\ \A id \in 2..Len(heap) :
           (err = "none" \/ id < Len(heap)) =>
               heap[id].deferred_actions = <<>>
    /\ pc = "running" =>
           \A i \in 0..(Len(_futures) - 1) :
               Slot(i).deferred_actions = <<>>

\* C16 witness: an advance was made; a ship was queued for destruction and
\* removed in the tick that made one slot of the buffer, none was in the
\* tick that made another, and the queue of every slot is empty.
C16_Witness ==
    /\ pc = "running"
    /\ ticks > 0
    /\ \E i \in 0..(FutureStepCount - 1) :
          \E k \in 1..Len(Slot(i).spaceships) :
              /\ HitPlanets(Slot(i), Slot(i).spaceships[k]) # {}
              /\ Slot(i).spaceships[k].id \notin Ids(Slot(i + 1))
    /\ \E i \in 0..(FutureStepCount - 1) :
          Ids(Slot(i + 1)) = Ids(Slot(i))
    /\ \A i \in 0..FutureStepCount : Slot(i).deferred_actions = <<>>

\* The forces simulate_planets computes for the pairs (A, B) and (B, A).
PairForces(A, B) ==
    <<gravity_force(A, B, distance(B, A)), gravity_force(B, A, distance(A, B))>>

\* C17 (symmetry of the planet-planet force), as claimed: for the two
\* planets of the world, at different positions, the magnitude
\* gravity_force computes for the pair (A, B) equals the one it computes
\* for (B, A), and on every axis where the coordinates differ the two
\* components have opposite signs.
C17_ForceSymmetry ==
    LET A == heap[1].planets[1]
        B == heap[1].planets[2]
        f == PairForces(A, B)
    IN  A.position # B.position =>
            /\ f[1].err = "none" /\ f[2].err = "none"
            /\ FAbs(f[1].x) = FAbs(f[2].x)
            /\ FAbs(f[1].y) = FAbs(f[2].y)
            /\ A.position[1] # B.position[1] => f[1].x.neg # f[2].x.neg
            /\ A.position[2] # B.position[2] => f[1].y.neg # f[2].y.neg

RECURSIVE SumSeq(_)
SumSeq(seq) == IF seq = <<>> THEN 0 ELSE Head(seq) + SumSeq(Tail(seq))

\* The last n entries of seq.
LastN(seq, n) == SubSeq(seq, Len(seq) - n + 1, Len(seq))

\* C19 (the sliding window of Statistics): after any pushes and resets,
\* samples has sample_count entries, which are the last sample_count of
\* the initial zeros followed by all pushes in order (so reset changed
\* nothing of it), sum_of_samples is the sum of the entries, and every
\* sample pushed since the last reset is at most max_sample and at least
\* min_sample.
C19_StatisticsWindow ==
    /\ frame_statistics.sample_count = SampleCount
    /\ Len(frame_statistics.samples) = SampleCount
    /\ frame_statistics.samples =
           LastN([i \in 1..SampleCount |-> 0] \o pushed, SampleCount)
    /\ frame_statistics.sum_of_samples = SumSeq(frame_statistics.samples)
    /\ \A i \in 1..Len(since) :
           /\ since[i] <= frame_statistics.max_sample
           /\ WideLeq(frame_statistics.min_sample, Wide(since[i]))

\* C19 witness: more samples than the window holds were pushed, a nonzero
\* one has left the window, a reset was made between pushes, and the sum
\* is the sum of the window and differs from the sum of all pushes.
C19_Witness ==
    /\ Len(pushed) > SampleCount
    /\ pushed[1] # 0
    /\ since # <<>>
    /\ Len(since) < Len(pushed)
    /\ frame_statistics.samples = LastN(pushed, SampleCount)
    /\ frame_statistics.sum_of_samples = SumSeq(frame_statistics.samples)
    /\ frame_statistics.sum_of_samples # SumSeq(pushed)
    /\ frame_statistics.max_sample = 16
    /\ frame_statistics.min_sample = Wide(-3)

====
